---- MODULE Spec2Model ----
(***************************************************************************)
(* CloudWatchCashBack: cloudwatch_logs_cost_estimator.py                   *)
(*                                                                         *)
(* Python numbers (int and float) are modelled as exact rationals          *)
(* [n |-> numerator, d |-> denominator > 0] in lowest terms, so that       *)
(* x / 30, x * 30 and bytes / 1024^3 are computed, not assumed.  Binary    *)
(* floating-point rounding is not modelled.                                *)
(***************************************************************************)
EXTENDS Integers, Sequences, FiniteSets

(* ---------------------------------------------------------------- numbers *)

Abs(x) == IF x < 0 THEN -x ELSE x

RECURSIVE GCD(_, _)
GCD(a, b) == IF b = 0 THEN a ELSE GCD(b, a % b)

\* n / d in lowest terms with a positive denominator (d # 0)
Frac(n, d) ==
    LET g == GCD(Abs(n), Abs(d))
        s == IF d < 0 THEN -1 ELSE 1
    IN  [n |-> s * (n \div g), d |-> s * (d \div g)]

R(i) == [n |-> i, d |-> 1]

RAdd(a, b) == Frac(a.n * b.d + b.n * a.d, a.d * b.d)
RSub(a, b) == Frac(a.n * b.d - b.n * a.d, a.d * b.d)
RMul(a, b) == Frac(a.n * b.n, a.d * b.d)
RDiv(a, b) == Frac(a.n * b.d, a.d * b.n)
RLt(a, b) == a.n * b.d < b.n * a.d
RLe(a, b) == a.n * b.d <= b.n * a.d
RGt(a, b) == RLt(b, a)
\* Python's min(a, b): b only when b < a
RMin(a, b) == IF RLt(b, a) THEN b ELSE a

RECURSIVE RSum(_)
RSum(s) == IF s = <<>> THEN R(0) ELSE RAdd(Head(s), RSum(Tail(s)))

(* ----------------------------------------------------------- pricing data *)

\* a vended-logs tier schedule, rates in dollars per GB
Schedule(a, b, c, e) ==
    [first_10tb |-> a, next_20tb |-> b, next_20tb_plus |-> c, over_50tb |-> e]

\* one region's entry of cloudwatch_pricing.json
RegionPricing(std, ia, sstd, sia) ==
    [logs |-> [standard_ingestion |-> std, infrequent_ingestion |-> ia,
               vended_logs |-> [to_cloudwatch_logs_standard |-> sstd,
                                to_cloudwatch_logs_infrequent |-> sia]]]

\* the published rates: 0.50 / 0.25 flat, 0.50 0.25 0.10 0.05 and
\* 0.25 0.15 0.075 0.05 tiered
UsEast1Pricing ==
    RegionPricing(Frac(1, 2), Frac(1, 4),
                  Schedule(Frac(1, 2), Frac(1, 4), Frac(1, 10), Frac(1, 20)),
                  Schedule(Frac(1, 4), Frac(3, 20), Frac(3, 40), Frac(1, 20)))

\* a second region: 0.30 0.15 0.07 0.05 standard; the infrequent schedule
\* is not decreasing (0.05 0.10 0 0.20), which the pricing file may hold
OtherPricing ==
    RegionPricing(Frac(63, 100), Frac(3, 10),
                  Schedule(Frac(3, 10), Frac(3, 20), Frac(7, 100), Frac(1, 20)),
                  Schedule(Frac(1, 20), Frac(1, 10), R(0), Frac(1, 5)))

\* what load_pricing_data finds: a readable document (json.load's dict,
\* always holding the default region) or no readable file
Readable(data) == [readable |-> TRUE, data |-> data]
Unreadable == [readable |-> FALSE]

PricingFiles ==
    { Readable([r \in {"us-east-1", "eu-west-1"} |->
                   IF r = "us-east-1" THEN UsEast1Pricing ELSE OtherPricing]),
      Readable([r \in {"us-east-1"} |-> OtherPricing]),
      Unreadable }

\* region arguments: the default, a listed one, an unlisted one
Regions == {"us-east-1", "eu-west-1", "xx-nowhere-9"}

(* ----------------------------------------------------------------- inputs *)

\* number of 10000 GB steps probed above the last threshold
MaxOver == 1

\* monthly volumes around every threshold, in GB
MonthlyVolumes ==
    {0, 1, 40000}
    \cup {t + e : t \in {10000, 30000, 50000}, e \in {-1, 0, 1}}
    \cup {50000 + 10000 * k : k \in 1..MaxOver}

\* daily_gb_ingested arguments: monthly / 30, a volume half a GB above the
\* first threshold, and a negative figure
DailyInputs ==
    {Frac(m, 30) : m \in MonthlyVolumes} \cup {Frac(20001, 60), R(-1)}

\* standard_gb / ia_gb arguments of the flat calculator
FlatInputs == {R(0), R(100), R(-5)}

\* dates as strftime('%Y-%m-%d') writes them: year, month, day, zero padded,
\* so that string order is the order of the three fields
Dates == {<<2024, 12, 31>>, <<2025, 1, 9>>, <<2025, 1, 10>>}

\* most days a daily_usage dict handed to analyze_costs holds
MaxDays == 2

\* one day's figures {'standard': .., 'ia': ..}, in GB
DayFigures ==
    [standard : {R(0), R(200), R(20000), R(-5)}, ia : {R(0), R(400), R(-1)}]

\* a dict as its items in insertion order: distinct dates, any order
UsageDicts ==
    UNION { { u \in [1..n -> [date : Dates, data : DayFigures]] :
                \A i, j \in 1..n : i # j => u[i].date # u[j].date } :
            n \in 0..MaxDays }

VARIABLES
    pricing_file,   \* content of cloudwatch_pricing.json
    cur,            \* the latest call of a calculator: arguments and outcome
    prev,           \* the call before it
    analysis,       \* the call of analyze_costs: arguments and outcome
    pc,             \* where the run of main stands
    argv,           \* sys.argv
    ambient_region, \* the region boto3 is configured with, if any
    account,        \* the account's log groups, as describe_log_groups pages them
    page,           \* number of pages fetched
    log_groups,     \* log_groups of get_lambda_log_usage_for_month
    fetched,        \* per log group handled so far: what get_metric_statistics did
    usage_by_day,   \* daily_usage of get_lambda_log_usage_for_month
    error_log,      \* what logger.error has written
    uncaught,       \* the call whose exception ended the run
    report,         \* format_cost_report's text
    report_file,    \* the report file on disk
    stdout          \* what print has written

mainVars == <<pc, argv, ambient_region, account, page, log_groups, fetched,
              usage_by_day, error_log, uncaught, report, report_file, stdout>>

vars == <<pricing_file, cur, prev, analysis, mainVars>>

(* ------------------------------------------------------------ calculators *)

Raised(e) == [raised |-> TRUE, error |-> e]
Returned(v, l) == [raised |-> FALSE, value |-> v, locals |-> l]

RegionLookupAlwaysDefault(pricing_data, region) == pricing_data["us-east-1"]

\* pricing_data.get(region, pricing_data['us-east-1'])
RegionLookup(pricing_data, region) ==
    IF region \in DOMAIN pricing_data THEN pricing_data[region]
    ELSE pricing_data["us-east-1"]

calculate_old_cloudwatch_cost(standard_gb, ia_gb, region) ==
    IF ~pricing_file.readable THEN Raised("load_pricing_data")
    ELSE
    LET pricing_data == pricing_file.data
        region_pricing == RegionLookup(pricing_data, region)
        standard_cost == RMul(standard_gb, region_pricing.logs.standard_ingestion)
        ia_cost == RMul(ia_gb, region_pricing.logs.infrequent_ingestion)
    IN  Returned(RAdd(standard_cost, ia_cost), [region_pricing |-> region_pricing])

TB_to_GB == 1000
tier1_threshold == 10 * TB_to_GB
tier2_threshold == 30 * TB_to_GB
tier3_threshold == 50 * TB_to_GB

Tier1UsageOnlyBelow(monthly_gb) ==
    IF RGt(monthly_gb, R(tier1_threshold)) THEN R(0) ELSE monthly_gb

\* tier1_usage = min(monthly_gb, tier1_threshold)
Tier1Usage(monthly_gb) == RMin(monthly_gb, R(tier1_threshold))

Tier2UsageWide(monthly_gb) ==
    IF RGt(monthly_gb, R(tier1_threshold))
    THEN RMin(RSub(monthly_gb, R(tier1_threshold)), R(tier2_threshold))
    ELSE R(0)

\* the GB priced in tier 2; tier2_usage is assigned only inside the if,
\* otherwise no volume is priced there
Tier2Usage(monthly_gb) ==
    IF RGt(monthly_gb, R(tier1_threshold))
    THEN RMin(RSub(monthly_gb, R(tier1_threshold)),
              R(tier2_threshold - tier1_threshold))
    ELSE R(0)

Tier3Usage(monthly_gb) ==
    IF RGt(monthly_gb, R(tier2_threshold))
    THEN RMin(RSub(monthly_gb, R(tier2_threshold)),
              R(tier3_threshold - tier2_threshold))
    ELSE R(0)

Tier4UsageFromZero(monthly_gb) ==
    IF RGt(monthly_gb, R(tier3_threshold)) THEN monthly_gb ELSE R(0)

Tier4Usage(monthly_gb) ==
    IF RGt(monthly_gb, R(tier3_threshold))
    THEN RSub(monthly_gb, R(tier3_threshold))
    ELSE R(0)

calculate_new_cloudwatch_cost(daily_gb_ingested, region, is_ia) ==
    IF ~pricing_file.readable THEN Raised("load_pricing_data")
    ELSE
    LET pricing_data == pricing_file.data
        region_pricing == RegionLookup(pricing_data, region)
        vended_logs_pricing ==
            IF is_ia
            THEN region_pricing.logs.vended_logs.to_cloudwatch_logs_infrequent
            ELSE region_pricing.logs.vended_logs.to_cloudwatch_logs_standard
        tier1_price == vended_logs_pricing.first_10tb
        tier2_price == vended_logs_pricing.next_20tb
        tier3_price == vended_logs_pricing.next_20tb_plus
        tier4_price == vended_logs_pricing.over_50tb
        monthly_gb == RMul(daily_gb_ingested, R(30))
        tier1_usage == Tier1Usage(monthly_gb)
        tier2_usage == Tier2Usage(monthly_gb)
        tier3_usage == Tier3Usage(monthly_gb)
        tier4_usage == Tier4Usage(monthly_gb)
        tier1_cost == RMul(tier1_usage, tier1_price)
        tier2_cost == RMul(tier2_usage, tier2_price)
        tier3_cost == RMul(tier3_usage, tier3_price)
        tier4_cost == RMul(tier4_usage, tier4_price)
        total_monthly_cost ==
            RAdd(RAdd(RAdd(tier1_cost, tier2_cost), tier3_cost), tier4_cost)
        total_daily_cost == RDiv(total_monthly_cost, R(30))
    IN  Returned([daily_gb_ingested |-> daily_gb_ingested,
                  monthly_gb_ingested |-> monthly_gb,
                  tier1_cost |-> tier1_cost,
                  tier2_cost |-> tier2_cost,
                  tier3_cost |-> tier3_cost,
                  tier4_cost |-> tier4_cost,
                  total_monthly_cost |-> total_monthly_cost,
                  total_daily_cost |-> total_daily_cost],
                 [region_pricing |-> region_pricing,
                  vended_logs_pricing |-> vended_logs_pricing,
                  tier1_usage |-> tier1_usage,
                  tier2_usage |-> tier2_usage,
                  tier3_usage |-> tier3_usage,
                  tier4_usage |-> tier4_usage])

(* ------------------------------------------- calls of the two calculators *)

NoCall == [fn |-> "none"]
NoRegion == "None"
NoFile == [exists |-> FALSE]
Nothing == "nothing"

\* main is not running
MainIdle ==
    /\ pc = "idle"
    /\ argv = <<"cloudwatch_logs_cost_estimator.py">>
    /\ ambient_region = NoRegion
    /\ account = <<>>
    /\ page = 0
    /\ log_groups = <<>>
    /\ fetched = <<>>
    /\ usage_by_day = <<>>
    /\ error_log = <<>>
    /\ uncaught = Nothing
    /\ report = Nothing
    /\ report_file = NoFile
    /\ stdout = <<>>

InitCalc ==
    /\ pricing_file \in PricingFiles
    /\ cur = NoCall
    /\ prev = NoCall
    /\ analysis = NoCall
    /\ MainIdle

\* a behaviour is two calls in a row: cur and prev hold them
CallOld ==
    /\ prev = NoCall
    /\ \E standard_gb \in FlatInputs, ia_gb \in FlatInputs, region \in Regions :
        /\ cur' = [fn |-> "calculate_old_cloudwatch_cost",
                   standard_gb |-> standard_gb, ia_gb |-> ia_gb,
                   region |-> region,
                   ret |-> calculate_old_cloudwatch_cost(standard_gb, ia_gb, region)]
        /\ prev' = cur
        /\ UNCHANGED <<pricing_file, analysis, mainVars>>

CallNew ==
    /\ prev = NoCall
    /\ \E daily_gb_ingested \in DailyInputs, region \in Regions, is_ia \in BOOLEAN :
        /\ cur' = [fn |-> "calculate_new_cloudwatch_cost",
                   daily_gb_ingested |-> daily_gb_ingested,
                   region |-> region, is_ia |-> is_ia,
                   ret |-> calculate_new_cloudwatch_cost(daily_gb_ingested,
                                                         region, is_ia)]
        /\ prev' = cur
        /\ UNCHANGED <<pricing_file, analysis, mainVars>>

NextCalc == CallOld \/ CallNew

SpecCalc == InitCalc /\ [][NextCalc]_vars

(* ---------------------------------------------------------- analyze_costs *)

\* order of two 'YYYY-MM-DD' strings
DateLt(a, b) ==
    \/ a[1] < b[1]
    \/ a[1] = b[1] /\ a[2] < b[2]
    \/ a[1] = b[1] /\ a[2] = b[2] /\ a[3] < b[3]

RECURSIVE InsertItem(_, _)
InsertItem(item, s) ==
    IF s = <<>> THEN <<item>>
    ELSE IF DateLt(item.date, Head(s).date) THEN <<item>> \o s
    ELSE <<Head(s)>> \o InsertItem(item, Tail(s))

RECURSIVE SortItems(_)
SortItems(s) == IF s = <<>> THEN <<>> ELSE InsertItem(Head(s), SortItems(Tail(s)))

ItemsUnsorted(daily_usage) == daily_usage

\* sorted(daily_usage.items()): the keys are distinct, so by date
SortedItems(daily_usage) == SortItems(daily_usage)

SumOfIaForStandard(daily_usage) ==
    RSum([i \in 1..Len(daily_usage) |-> daily_usage[i].data.ia])

\* sum(day['standard'] for day in daily_usage.values())
SumStandard(daily_usage) ==
    RSum([i \in 1..Len(daily_usage) |-> daily_usage[i].data.standard])

\* sum(day['ia'] for day in daily_usage.values())
SumIa(daily_usage) ==
    RSum([i \in 1..Len(daily_usage) |-> daily_usage[i].data.ia])

DailyNewCostMonthly(standard, ia) ==
    RAdd(standard.value.total_monthly_cost, ia.value.total_monthly_cost)

\* daily_new_cost, from the two tiered results of the day
DailyNewCost(standard, ia) ==
    RAdd(standard.value.total_daily_cost, ia.value.total_daily_cost)

\* one pass of the loop over sorted(daily_usage.items())
DailyComparison(item, region) ==
    LET daily_standard_gb == item.data.standard
        daily_ia_gb == item.data.ia
        old == calculate_old_cloudwatch_cost(daily_standard_gb, daily_ia_gb, region)
        standard == calculate_new_cloudwatch_cost(daily_standard_gb, region, FALSE)
        ia == calculate_new_cloudwatch_cost(daily_ia_gb, region, TRUE)
    IN  IF old.raised THEN old
        ELSE IF standard.raised THEN standard
        ELSE IF ia.raised THEN ia
        ELSE LET daily_new_cost == DailyNewCost(standard, ia)
             IN  [raised |-> FALSE,
                  row |-> [date |-> item.date,
                           old_cost |-> old.value,
                           new_cost |-> daily_new_cost,
                           standard_gb |-> daily_standard_gb,
                           ia_gb |-> daily_ia_gb,
                           total_gb |-> RAdd(daily_standard_gb, daily_ia_gb),
                           difference |-> RSub(daily_new_cost, old.value)]]

analyze_costs(daily_usage, region) ==
    LET total_standard_gb == SumStandard(daily_usage)
        total_ia_gb == SumIa(daily_usage)
        total_gb == RAdd(total_standard_gb, total_ia_gb)
        old_cost == calculate_old_cloudwatch_cost(total_standard_gb, total_ia_gb, region)
        standard_cost_data ==
            calculate_new_cloudwatch_cost(RDiv(total_standard_gb, R(30)), region, FALSE)
        ia_cost_data ==
            calculate_new_cloudwatch_cost(RDiv(total_ia_gb, R(30)), region, TRUE)
        items == SortedItems(daily_usage)
        passes == [i \in 1..Len(items) |-> DailyComparison(items[i], region)]
    IN  IF old_cost.raised THEN Raised(old_cost.error)
        ELSE IF standard_cost_data.raised THEN Raised(standard_cost_data.error)
        ELSE IF ia_cost_data.raised THEN Raised(ia_cost_data.error)
        ELSE IF \E i \in 1..Len(items) : passes[i].raised
        THEN Raised(passes[CHOOSE i \in 1..Len(items) :
                               /\ passes[i].raised
                               /\ \A j \in 1..(i - 1) : ~passes[j].raised].error)
        ELSE [raised |-> FALSE,
              value |->
                [total_old_cost |-> old_cost.value,
                 total_new_cost |->
                     RAdd(standard_cost_data.value.total_monthly_cost,
                          ia_cost_data.value.total_monthly_cost),
                 total_standard_gb |-> total_standard_gb,
                 total_ia_gb |-> total_ia_gb,
                 total_gb |-> total_gb,
                 daily_comparisons |-> [i \in 1..Len(items) |-> passes[i].row],
                 region |-> region]]

InitAnalyze ==
    /\ pricing_file \in PricingFiles
    /\ cur = NoCall
    /\ prev = NoCall
    /\ analysis = NoCall
    /\ MainIdle

\* one call of analyze_costs per behaviour
CallAnalyze ==
    /\ analysis = NoCall
    /\ \E daily_usage \in UsageDicts, region \in Regions :
        analysis' = [fn |-> "analyze_costs",
                     daily_usage |-> daily_usage,
                     region |-> region,
                     ret |-> analyze_costs(daily_usage, region)]
    /\ UNCHANGED <<pricing_file, cur, prev, mainVars>>

NextAnalyze == CallAnalyze

SpecAnalyze == InitAnalyze /\ [][NextAnalyze]_vars

(* ------------------------------------------------------------ run of main *)

Prog == "cloudwatch_logs_cost_estimator.py"

Argvs ==
    { <<Prog>>,
      <<Prog, "--region", "eu-west-1">>,
      <<Prog, "--region", "xx-nowhere-9">>,
      <<Prog, "--region">> }

AmbientRegions == {"us-east-1", "eu-west-1", NoRegion}

\* the value after the first '--region' that has one, else ""
get_region(args) ==
    LET hits == {i \in 1..Len(args) : args[i] = "--region" /\ i + 1 <= Len(args)}
    IN  IF hits = {} THEN ""
        ELSE args[(CHOOSE i \in hits : \A j \in hits : i <= j) + 1]

region_cli == get_region(argv)

\* region of main and of get_lambda_log_usage_for_month
main_region == IF region_cli # "" THEN region_cli ELSE ambient_region

\* log group names as their path segments: '/aws/lambda/a' is <<"aws", "lambda", "a">>
GroupA == [logGroupName |-> <<"aws", "lambda", "a">>]
GroupB == [logGroupName |-> <<"aws", "lambda", "b">>, logGroupClass |-> "INFREQUENT_ACCESS"]
GroupC == [logGroupName |-> <<"aws", "lambda", "c">>, logGroupClass |-> "DELIVERY"]
GroupX == [logGroupName |-> <<"aws", "ecs", "x">>, logGroupClass |-> "STANDARD"]

\* what describe_log_groups returns, page by page
Accounts ==
    { << <<GroupX>> >>,
      << <<GroupB, GroupA>> >>,
      << <<GroupA, GroupX>>, <<GroupB>> >>,
      << <<GroupA>>, <<>>, <<GroupC, GroupB>> >> }

\* log_group['logGroupName'].startswith('/aws/lambda/')
IsLambda(name) == Len(name) >= 3 /\ name[1] = "aws" /\ name[2] = "lambda"

\* log_group.get('logGroupClass', 'STANDARD')
ClassOf(g) == IF "logGroupClass" \in DOMAIN g THEN g.logGroupClass ELSE "STANDARD"

RECURSIVE LambdaGroups(_)
\* the filter of one page into {'name': .., 'class': ..} entries
LambdaGroups(groups) ==
    IF groups = <<>> THEN <<>>
    ELSE (IF IsLambda(Head(groups).logGroupName)
          THEN << [name |-> Head(groups).logGroupName, class |-> ClassOf(Head(groups))] >>
          ELSE <<>>) \o LambdaGroups(Tail(groups))

GiB == 1024 * 1024 * 1024

\* datapoints: Timestamp <<year, month, day, hour>> and Sum in bytes
Datapoint(ts, bytes) == [Timestamp |-> ts, Sum |-> bytes]

Responses ==
    { <<>>,
      << Datapoint(<<2025, 1, 10, 0>>, GiB) >>,
      << Datapoint(<<2025, 1, 10, 0>>, GiB \div 2), Datapoint(<<2025, 1, 9, 0>>, 3 * (GiB \div 2)) >> }

\* Timestamp.strftime('%Y-%m-%d')
strftime(ts) == <<ts[1], ts[2], ts[3]>>

HasDate(usage, date) == \E i \in 1..Len(usage) : usage[i].date = date

\* the body of the loop over response['Datapoints']
AddDatapoint(usage, datapoint, class) ==
    LET date == strftime(datapoint.Timestamp)
        bytes_ingested == R(datapoint.Sum)
        gb_ingested == RDiv(bytes_ingested, R(GiB))
        known == IF HasDate(usage, date) THEN usage
                 ELSE Append(usage, [date |-> date,
                                     data |-> [standard |-> R(0), ia |-> R(0)]])
    IN  [i \in 1..Len(known) |->
            IF known[i].date # date THEN known[i]
            ELSE IF class = "INFREQUENT_ACCESS"
            THEN [known[i] EXCEPT !.data.ia = RAdd(@, gb_ingested)]
            ELSE [known[i] EXCEPT !.data.standard = RAdd(@, gb_ingested)]]

RECURSIVE AddDatapoints(_, _, _)
AddDatapoints(usage, datapoints, class) ==
    IF datapoints = <<>> THEN usage
    ELSE AddDatapoints(AddDatapoint(usage, Head(datapoints), class),
                       Tail(datapoints), class)

\* '{:,.2f}': the value in hundredths, rounded half to even
Fmt2(x) ==
    LET scaled == RMul(x, R(100))
        q == scaled.n \div scaled.d
        rest == RSub(scaled, R(q))
    IN  IF RGt(rest, Frac(1, 2)) THEN q + 1
        ELSE IF rest = Frac(1, 2) THEN q + (q % 2)
        ELSE q

\* the report text, line by line: each line as its label and the figures
\* it prints
format_cost_report(a) ==
    << <<"CloudWatch Logs Cost Analysis">>,
       <<"===========================">>,
       <<"Region", a.region>>,
       <<"Total GB Ingested", Fmt2(a.total_gb)>>,
       <<"Standard Storage", Fmt2(a.total_standard_gb)>>,
       <<"Infrequent Access", Fmt2(a.total_ia_gb)>>,
       <<"">>,
       <<"Old Pricing Total Cost", Fmt2(a.total_old_cost)>>,
       <<"New Pricing Total Cost", Fmt2(a.total_new_cost)>>,
       <<"Cost Difference", Fmt2(RSub(a.total_new_cost, a.total_old_cost))>> >>
    \o (IF RGt(a.total_old_cost, R(0))
        THEN << <<"Percentage Change",
                  Fmt2(RMul(RDiv(RSub(a.total_new_cost, a.total_old_cost),
                                 a.total_old_cost), R(100)))>> >>
        ELSE <<>>)
    \o << <<"Daily Breakdown">>, <<"---------------">> >>
    \o [i \in 1..Len(a.daily_comparisons) |->
          LET day == a.daily_comparisons[i]
          IN  <<day.date, Fmt2(day.old_cost), Fmt2(day.new_cost),
                Fmt2(day.difference), Fmt2(day.total_gb),
                Fmt2(day.standard_gb), Fmt2(day.ia_gb)>>]

Init ==
    /\ pricing_file \in PricingFiles
    /\ cur = NoCall
    /\ prev = NoCall
    /\ analysis = NoCall
    /\ pc = "main"
    /\ argv \in Argvs
    /\ ambient_region \in AmbientRegions
    /\ account \in Accounts
    /\ page = 0
    /\ log_groups = <<>>
    /\ fetched = <<>>
    /\ usage_by_day = <<>>
    /\ error_log = <<>>
    /\ uncaught = Nothing
    /\ report = Nothing
    /\ report_file = NoFile
    /\ stdout = <<>>

\* an exception nobody catches ends the run
Crash(call) ==
    /\ pc' = "crashed"
    /\ uncaught' = call

\* main, lines 367-370: boto3.client('logs') is needed only without --region
ResolveRegion ==
    /\ pc = "main"
    /\ IF region_cli = "" /\ ambient_region = NoRegion
       THEN Crash("boto3.client")
       ELSE pc' = "identity" /\ UNCHANGED uncaught
    /\ UNCHANGED <<pricing_file, cur, prev, analysis, argv, ambient_region, account,
                   page, log_groups, fetched, usage_by_day, error_log, report,
                   report_file, stdout>>

\* main, lines 371-374: sts get_caller_identity, which may raise
GetCallerIdentity ==
    /\ pc = "identity"
    /\ \E ok \in BOOLEAN :
          IF ok THEN pc' = "clients" /\ UNCHANGED uncaught
          ELSE Crash("get_caller_identity")
    /\ UNCHANGED <<pricing_file, cur, prev, analysis, argv, ambient_region, account,
                   page, log_groups, fetched, usage_by_day, error_log, report,
                   report_file, stdout>>

\* get_lambda_log_usage_for_month, lines 163-180: the two clients
CreateClients ==
    /\ pc = "clients"
    /\ IF ambient_region = NoRegion
       THEN Crash("boto3.client")
       ELSE pc' = "describe" /\ UNCHANGED uncaught
    /\ UNCHANGED <<pricing_file, cur, prev, analysis, argv, ambient_region, account,
                   page, log_groups, fetched, usage_by_day, error_log, report,
                   report_file, stdout>>

\* one pass of the while True loop: a page of describe_log_groups
DescribeLogGroups ==
    /\ pc = "describe"
    /\ \E ok \in BOOLEAN :
          IF ok
          THEN /\ log_groups' = log_groups \o LambdaGroups(account[page + 1])
               /\ page' = page + 1
               /\ pc' = IF page + 1 < Len(account) THEN "describe" ELSE "metrics"
               /\ UNCHANGED uncaught
          ELSE /\ Crash("describe_log_groups")
               /\ UNCHANGED <<log_groups, page>>
    /\ UNCHANGED <<pricing_file, cur, prev, analysis, argv, ambient_region, account,
                   fetched, usage_by_day, error_log, report, report_file, stdout>>

\* the log group the for loop stands at
log_group == log_groups[Len(fetched) + 1]

MetricsErrorEndsRun ==
    /\ pc = "metrics"
    /\ Len(fetched) < Len(log_groups)
    /\ fetched' = Append(fetched, [name |-> log_group.name, ok |-> FALSE])
    /\ Crash("get_metric_statistics")
    /\ UNCHANGED <<pricing_file, cur, prev, analysis, argv, ambient_region, account,
                   page, log_groups, usage_by_day, error_log, report, report_file,
                   stdout>>

\* one pass of the for loop whose get_metric_statistics raises: the except
\* clause logs the error and the loop goes on
MetricsError ==
    /\ pc = "metrics"
    /\ Len(fetched) < Len(log_groups)
    /\ fetched' = Append(fetched, [name |-> log_group.name, ok |-> FALSE])
    /\ error_log' = Append(error_log, <<"Error fetching metrics for", log_group.name>>)
    /\ UNCHANGED <<pricing_file, cur, prev, analysis, pc, argv, ambient_region,
                   account, page, log_groups, usage_by_day, uncaught, report,
                   report_file, stdout>>

\* one pass of the for loop whose get_metric_statistics answers
MetricsFetched ==
    /\ pc = "metrics"
    /\ Len(fetched) < Len(log_groups)
    /\ \E response \in Responses :
          /\ usage_by_day' = AddDatapoints(usage_by_day, response, log_group.class)
          /\ fetched' = Append(fetched, [name |-> log_group.name, ok |-> TRUE,
                                         class |-> log_group.class,
                                         Datapoints |-> response])
    /\ UNCHANGED <<pricing_file, cur, prev, analysis, pc, argv, ambient_region,
                   account, page, log_groups, error_log, uncaught, report,
                   report_file, stdout>>

\* the loop is over: return daily_usage; main calls analyze_costs
AnalyzeUsage ==
    /\ pc = "metrics"
    /\ Len(fetched) = Len(log_groups)
    /\ analysis' = [fn |-> "analyze_costs", daily_usage |-> usage_by_day,
                    region |-> main_region,
                    ret |-> analyze_costs(usage_by_day, main_region)]
    /\ IF analysis'.ret.raised THEN Crash(analysis'.ret.error)
       ELSE pc' = "report" /\ UNCHANGED uncaught
    /\ UNCHANGED <<pricing_file, cur, prev, argv, ambient_region, account, page,
                   log_groups, fetched, usage_by_day, error_log, report, report_file,
                   stdout>>

\* format_cost_report, then reports_dir.mkdir(exist_ok=True), which may raise
FormatReport ==
    /\ pc = "report"
    /\ report' = format_cost_report(analysis.ret.value)
    /\ \E ok \in BOOLEAN :
          IF ok THEN pc' = "write" /\ UNCHANGED uncaught
          ELSE Crash("mkdir")
    /\ UNCHANGED <<pricing_file, cur, prev, analysis, argv, ambient_region, account,
                   page, log_groups, fetched, usage_by_day, error_log, report_file,
                   stdout>>

\* the try around open/write: a failure is logged and the run goes on
WriteReport ==
    /\ pc = "write"
    /\ \E ok \in BOOLEAN :
          IF ok
          THEN /\ report_file' = [exists |-> TRUE, text |-> report]
               /\ UNCHANGED error_log
          ELSE /\ error_log' = Append(error_log, <<"Error writing report to file">>)
               /\ UNCHANGED report_file
    /\ pc' = "print"
    /\ UNCHANGED <<pricing_file, cur, prev, analysis, argv, ambient_region, account,
                   page, log_groups, fetched, usage_by_day, uncaught, report, stdout>>

\* print(report); return analysis
PrintReport ==
    /\ pc = "print"
    /\ stdout' = Append(stdout, report)
    /\ pc' = "done"
    /\ UNCHANGED <<pricing_file, cur, prev, analysis, argv, ambient_region, account,
                   page, log_groups, fetched, usage_by_day, error_log, uncaught,
                   report, report_file>>

Next ==
    \/ ResolveRegion
    \/ GetCallerIdentity
    \/ CreateClients
    \/ DescribeLogGroups
    \/ MetricsError
    \/ MetricsFetched
    \/ AnalyzeUsage
    \/ FormatReport
    \/ WriteReport
    \/ PrintReport

Spec == Init /\ [][Next]_vars

(* ------------------------------------------ properties of the calculators *)

IsNew(c) == c.fn = "calculate_new_cloudwatch_cost"
IsOld(c) == c.fn = "calculate_old_cloudwatch_cost"
IsCall(c) == IsNew(c) \/ IsOld(c)

\* a call of the tiered calculator that returned, on a non-negative volume
NewReturnedNonNeg(c) ==
    /\ IsNew(c)
    /\ ~c.ret.raised
    /\ RLe(R(0), c.daily_gb_ingested)

\* C1: for a non-negative monthly volume the GB attributed to the four
\* bands sum exactly to the monthly volume, each is >= 0, and bands 1, 2, 3
\* hold at most 10000, 20000 and 20000 GB.
C1_BandUsagePartition ==
    NewReturnedNonNeg(cur) =>
        LET u == cur.ret.locals
            m == cur.ret.value.monthly_gb_ingested
        IN  /\ m = RMul(cur.daily_gb_ingested, R(30))
            /\ RAdd(RAdd(RAdd(u.tier1_usage, u.tier2_usage), u.tier3_usage),
                    u.tier4_usage) = m
            /\ RLe(R(0), u.tier1_usage) /\ RLe(R(0), u.tier2_usage)
            /\ RLe(R(0), u.tier3_usage) /\ RLe(R(0), u.tier4_usage)
            /\ RLe(u.tier1_usage, R(10000))
            /\ RLe(u.tier2_usage, R(20000))
            /\ RLe(u.tier3_usage, R(20000))

\* a returned call whose volume reaches into the fourth band
C1_Witness ==
    /\ NewReturnedNonNeg(cur)
    /\ RGt(cur.ret.value.monthly_gb_ingested, R(50000))
    /\ RGt(cur.ret.locals.tier4_usage, R(0))

Clamp(x, lo, hi) == IF RLt(x, lo) THEN lo ELSE IF RLt(hi, x) THEN hi ELSE x

ScenarioB == Schedule(Frac(3, 10), Frac(3, 20), Frac(7, 100), Frac(1, 20))

\* C2: each tier cost equals clamp(m - lower_bound, 0, band_width) * band_rate
\* with lower bounds 0, 10000, 30000, 50000; total_monthly_cost is the sum of
\* the four; at m equal to a threshold the band above it costs 0; m = 40000
\* with rates 0.30 0.15 0.07 0.05 gives 3000, 3000, 700, 0 and total 6700.
C2_TierCosts ==
    NewReturnedNonNeg(cur) =>
        LET v == cur.ret.value
            m == RMul(cur.daily_gb_ingested, R(30))
            rate == cur.ret.locals.vended_logs_pricing
        IN  /\ v.tier1_cost =
                 RMul(Clamp(m, R(0), R(10000)), rate.first_10tb)
            /\ v.tier2_cost =
                 RMul(Clamp(RSub(m, R(10000)), R(0), R(20000)), rate.next_20tb)
            /\ v.tier3_cost =
                 RMul(Clamp(RSub(m, R(30000)), R(0), R(20000)), rate.next_20tb_plus)
            /\ v.tier4_cost =
                 RMul(IF RLt(RSub(m, R(50000)), R(0)) THEN R(0)
                      ELSE RSub(m, R(50000)), rate.over_50tb)
            /\ v.total_monthly_cost =
                 RAdd(RAdd(RAdd(v.tier1_cost, v.tier2_cost), v.tier3_cost),
                      v.tier4_cost)
            /\ (m = R(10000) => v.tier2_cost = R(0))
            /\ (m = R(30000) => v.tier3_cost = R(0))
            /\ (m = R(50000) => v.tier4_cost = R(0))
            /\ (m = R(40000) /\ rate = ScenarioB =>
                    /\ v.tier1_cost = R(3000)
                    /\ v.tier2_cost = R(3000)
                    /\ v.tier3_cost = R(700)
                    /\ v.tier4_cost = R(0)
                    /\ v.total_monthly_cost = R(6700))

\* scenario B has been computed, and so has a volume exactly on a threshold
C2_Witness ==
    /\ NewReturnedNonNeg(cur)
    /\ cur.ret.value.monthly_gb_ingested = R(40000)
    /\ cur.ret.locals.vended_logs_pricing = ScenarioB
    /\ cur.ret.value.total_monthly_cost = R(6700)
    /\ NewReturnedNonNeg(prev)
    /\ prev.ret.value.monthly_gb_ingested = R(30000)
    /\ RGt(prev.ret.value.tier2_cost, R(0))

HasNegativeFigure(c) ==
    \/ IsOld(c) /\ (RLt(c.standard_gb, R(0)) \/ RLt(c.ia_gb, R(0)))
    \/ IsNew(c) /\ RLt(c.daily_gb_ingested, R(0))

\* C3: a call of a calculator with a negative usage figure is rejected with
\* a validation error and returns no cost value (stated where the pricing
\* document itself loads).
C3_NegativeRejected ==
    (HasNegativeFigure(cur) /\ pricing_file.readable) =>
        (cur.ret.raised /\ cur.ret.error = "ValidationError")

\* C5: both calculators use the region's own rate table when the pricing
\* document lists the region and the us-east-1 table otherwise, without
\* raising; the cost for an unlisted region equals the us-east-1 cost on the
\* same usage (stated where the pricing document itself loads).
C5_RegionFallback ==
    (IsCall(cur) /\ pricing_file.readable) =>
        /\ ~cur.ret.raised
        /\ cur.ret.locals.region_pricing =
             IF cur.region \in DOMAIN pricing_file.data
             THEN pricing_file.data[cur.region]
             ELSE pricing_file.data["us-east-1"]
        /\ ( /\ IsCall(prev) /\ prev.fn = cur.fn
             /\ prev.region = "us-east-1"
             /\ cur.region \notin DOMAIN pricing_file.data
             /\ [prev EXCEPT !.region = cur.region, !.ret = cur.ret] = cur
             => cur.ret.value = prev.ret.value )

\* the same usage priced for us-east-1 and then for an unlisted region, in a
\* document that lists another region with other rates
C5_Witness ==
    /\ pricing_file.readable
    /\ IsNew(prev) /\ IsNew(cur)
    /\ "eu-west-1" \in DOMAIN pricing_file.data
    /\ prev.region = "us-east-1"
    /\ cur.region \notin DOMAIN pricing_file.data
    /\ cur.daily_gb_ingested = prev.daily_gb_ingested
    /\ cur.is_ia = prev.is_ia
    /\ RGt(cur.daily_gb_ingested, R(0))
    /\ cur.ret.value = prev.ret.value

\* C6: for a fixed tier schedule and monthly volumes 0 <= m1 <= m2, the
\* total_monthly_cost for m1 is <= the total_monthly_cost for m2.
C6_Monotone ==
    ( /\ NewReturnedNonNeg(prev) /\ NewReturnedNonNeg(cur)
      /\ prev.ret.locals.vended_logs_pricing = cur.ret.locals.vended_logs_pricing
      /\ RLe(prev.ret.value.monthly_gb_ingested, cur.ret.value.monthly_gb_ingested) )
    => RLe(prev.ret.value.total_monthly_cost, cur.ret.value.total_monthly_cost)

\* two volumes on either side of a threshold under one schedule, the larger
\* one costing strictly more
C6_Witness ==
    /\ NewReturnedNonNeg(prev) /\ NewReturnedNonNeg(cur)
    /\ prev.ret.locals.vended_logs_pricing = cur.ret.locals.vended_logs_pricing
    /\ prev.ret.value.monthly_gb_ingested = R(10000)
    /\ cur.ret.value.monthly_gb_ingested = R(10001)
    /\ RLt(prev.ret.value.total_monthly_cost, cur.ret.value.total_monthly_cost)

(* -------------------------------------------- properties of analyze_costs *)

Analyzed == analysis.fn = "analyze_costs"
AnalysisReturned == Analyzed /\ ~analysis.ret.raised

Rows == analysis.ret.value.daily_comparisons

RECURSIVE FieldTotal(_, _, _)
\* the figures of one storage class added up, record by record
FieldTotal(u, class, n) ==
    IF n = 0 THEN R(0)
    ELSE RAdd(FieldTotal(u, class, n - 1),
              IF class = "standard" THEN u[n].data.standard ELSE u[n].data.ia)

RECURSIVE RowsNewCost(_, _)
RowsNewCost(rows, n) ==
    IF n = 0 THEN R(0) ELSE RAdd(RowsNewCost(rows, n - 1), rows[n].new_cost)

AllNonNegative(u) ==
    \A i \in 1..Len(u) : RLe(R(0), u[i].data.standard) /\ RLe(R(0), u[i].data.ia)

SomeIngestion(u) ==
    \E i \in 1..Len(u) : RGt(u[i].data.standard, R(0)) \/ RGt(u[i].data.ia, R(0))

\* C7 as stated: for usage records with non-zero ingestion the sum of the
\* daily rows' new_cost does not equal total_new_cost.
C7_AsStated ==
    (AnalysisReturned /\ AllNonNegative(analysis.daily_usage)
                      /\ SomeIngestion(analysis.daily_usage)) =>
        RowsNewCost(Rows, Len(Rows)) # analysis.ret.value.total_new_cost

\* every figure handed to the tier bands stays within the first band
WithinFirstBand(u) ==
    /\ \A i \in 1..Len(u) :
          /\ RLe(RMul(u[i].data.standard, R(30)), R(10000))
          /\ RLe(RMul(u[i].data.ia, R(30)), R(10000))
    /\ RLe(FieldTotal(u, "standard", Len(u)), R(10000))
    /\ RLe(FieldTotal(u, "ia", Len(u)), R(10000))

\* C7 (amended): the sum of the daily rows' new_cost equals total_new_cost
\* whenever every day's volume * 30 and each storage class's monthly total
\* stay within the first band (<= 10000 GB); the two differ only when one of
\* these figures goes beyond it.
C7_EqualWithinFirstBand ==
    (AnalysisReturned /\ WithinFirstBand(analysis.daily_usage)) =>
        RowsNewCost(Rows, Len(Rows)) = analysis.ret.value.total_new_cost

\* non-zero, non-negative usage whose rows do not add up to total_new_cost
C7_Witness ==
    /\ AnalysisReturned
    /\ AllNonNegative(analysis.daily_usage)
    /\ SomeIngestion(analysis.daily_usage)
    /\ ~WithinFirstBand(analysis.daily_usage)
    /\ RowsNewCost(Rows, Len(Rows)) # analysis.ret.value.total_new_cost

\* C8: daily_comparisons holds exactly one row per input date, in strictly
\* ascending date order whatever the input order; each row's difference is
\* new_cost - old_cost and its total_gb is standard_gb + ia_gb.
C8_RowsPerDateAscending ==
    AnalysisReturned =>
        LET u == analysis.daily_usage
        IN  /\ Len(Rows) = Len(u)
            /\ \A i \in 1..Len(u) :
                  \E k \in 1..Len(Rows) :
                      /\ Rows[k].date = u[i].date
                      /\ Rows[k].standard_gb = u[i].data.standard
                      /\ Rows[k].ia_gb = u[i].data.ia
            /\ \A k \in 1..Len(Rows) : \E i \in 1..Len(u) : Rows[k].date = u[i].date
            /\ \A k \in 1..(Len(Rows) - 1) : DateLt(Rows[k].date, Rows[k + 1].date)
            /\ \A k \in 1..Len(Rows) :
                  /\ Rows[k].difference = RSub(Rows[k].new_cost, Rows[k].old_cost)
                  /\ Rows[k].total_gb = RAdd(Rows[k].standard_gb, Rows[k].ia_gb)

\* an input whose dates were inserted in descending order
C8_Witness ==
    /\ AnalysisReturned
    /\ Len(analysis.daily_usage) >= 2
    /\ \A i \in 1..(Len(analysis.daily_usage) - 1) :
          DateLt(analysis.daily_usage[i + 1].date, analysis.daily_usage[i].date)
    /\ Rows[1].date = analysis.daily_usage[Len(analysis.daily_usage)].date
    /\ Rows[1].difference # R(0)

\* C9: total_standard_gb and total_ia_gb are the sums of the records'
\* standard and IA volumes and total_gb is their sum; the empty input returns
\* without error, with all five totals zero and no rows (stated where the
\* pricing document itself loads).
C9_Totals ==
    (Analyzed /\ pricing_file.readable) =>
        LET u == analysis.daily_usage
            v == analysis.ret.value
        IN  /\ ~analysis.ret.raised
            /\ v.total_standard_gb = FieldTotal(u, "standard", Len(u))
            /\ v.total_ia_gb = FieldTotal(u, "ia", Len(u))
            /\ v.total_gb = RAdd(v.total_standard_gb, v.total_ia_gb)
            /\ (u = <<>> =>
                    /\ v.total_standard_gb = R(0)
                    /\ v.total_ia_gb = R(0)
                    /\ v.total_gb = R(0)
                    /\ v.total_old_cost = R(0)
                    /\ v.total_new_cost = R(0)
                    /\ v.daily_comparisons = <<>>)

\* several days with different standard and IA volumes have been totalled
C9_Witness ==
    /\ AnalysisReturned
    /\ Len(analysis.daily_usage) >= 2
    /\ analysis.ret.value.total_standard_gb = R(20200)
    /\ analysis.ret.value.total_ia_gb = R(400)
    /\ analysis.ret.value.total_gb = R(20600)

SomeNegative(u) ==
    \E i \in 1..Len(u) : RLt(u[i].data.standard, R(0)) \/ RLt(u[i].data.ia, R(0))

\* C10: if any daily record carries a negative standard or IA volume, the
\* whole call fails with the validation error and returns no result (stated
\* where the pricing document itself loads).
C10_AllOrNothing ==
    (Analyzed /\ pricing_file.readable /\ SomeNegative(analysis.daily_usage)) =>
        (analysis.ret.raised /\ analysis.ret.error = "ValidationError")

(* ------------------------------------------ properties of the run of main *)

SomeFetchFailed == \E i \in 1..Len(fetched) : ~fetched[i].ok

\* C4 as stated: when a log group's usage retrieval fails, the run of main
\* aborts and never reaches the step that writes the report file.
C4_AsStated ==
    SomeFetchFailed =>
        (pc \notin {"write", "print", "done"} /\ ~report_file.exists)

RECURSIVE DatapointsGB(_, _)
\* the GB of the datapoints of one response that fall on a date
DatapointsGB(datapoints, date) ==
    IF datapoints = <<>> THEN R(0)
    ELSE RAdd(IF strftime(Head(datapoints).Timestamp) = date
              THEN Frac(Head(datapoints).Sum, 1073741824) ELSE R(0),
              DatapointsGB(Tail(datapoints), date))

RECURSIVE AnsweredGB(_, _, _)
\* the GB on a date in the log groups that answered, by storage class
AnsweredGB(n, date, ia) ==
    IF n = 0 THEN R(0)
    ELSE RAdd(AnsweredGB(n - 1, date, ia),
              IF fetched[n].ok /\ ((fetched[n].class = "INFREQUENT_ACCESS") = ia)
              THEN DatapointsGB(fetched[n].Datapoints, date) ELSE R(0))

FailedNames == [i \in {j \in 1..Len(fetched) : ~fetched[j].ok} |-> fetched[i].name]

\* C4 (amended): when a log group's usage retrieval fails, the error is
\* logged, that log group contributes no usage and the run goes on: the
\* failure never ends the run, the usage handed to analyze_costs is that of
\* the log groups that answered, and the report written is built from it.
C4_FailureLoggedRunGoesOn ==
    /\ uncaught # "get_metric_statistics"
    /\ Len(fetched) <= Len(log_groups)
    /\ \A i \in 1..Len(fetched) : fetched[i].name = log_groups[i].name
    /\ Cardinality({i \in 1..Len(error_log) :
                       error_log[i][1] = "Error fetching metrics for"})
         = Cardinality(DOMAIN FailedNames)
    /\ \A i \in DOMAIN FailedNames :
          \E k \in 1..Len(error_log) :
              error_log[k] = <<"Error fetching metrics for", FailedNames[i]>>
    /\ \A i \in 1..Len(usage_by_day) :
          /\ usage_by_day[i].data.standard =
                AnsweredGB(Len(fetched), usage_by_day[i].date, FALSE)
          /\ usage_by_day[i].data.ia =
                AnsweredGB(Len(fetched), usage_by_day[i].date, TRUE)
          /\ \A j \in 1..Len(usage_by_day) :
                i # j => usage_by_day[i].date # usage_by_day[j].date
    /\ \A n \in 1..Len(fetched) :
          fetched[n].ok =>
              \A k \in 1..Len(fetched[n].Datapoints) :
                  HasDate(usage_by_day, strftime(fetched[n].Datapoints[k].Timestamp))
    /\ (SomeFetchFailed /\ Len(fetched) = Len(log_groups) /\ pricing_file.readable)
          => (pc # "crashed" \/ uncaught = "mkdir")
    /\ Analyzed => analysis.daily_usage = usage_by_day
    /\ report_file.exists =>
          /\ AnalysisReturned
          /\ report_file.text = format_cost_report(analysis.ret.value)

\* a run in which one log group failed and another answered with data, and
\* which has written and printed its report
C4_Witness ==
    /\ pc = "done"
    /\ SomeFetchFailed
    /\ \E i \in 1..Len(fetched) : fetched[i].ok /\ fetched[i].Datapoints # <<>>
    /\ usage_by_day # <<>>
    /\ report_file.exists
    /\ RGt(analysis.ret.value.total_gb, R(0))

====
